---- MODULE Spec2Model ----
(***************************************************************************)
(* The social data store (MemStorage) and the route handlers that call it. *)
(*                                                                         *)
(* Every storage method is an async function and every route handler       *)
(* awaits the storage calls it makes.  A handler therefore runs as a       *)
(* sequence of blocks: the code between two awaits runs without            *)
(* interruption, and at each await the handlers of other requests may run  *)
(* their own blocks.  A called async function runs synchronously up to its *)
(* first await, so a storage method without an inner await (createLike,    *)
(* createPost, acceptFriendRequest, ...) does all of its work in the block *)
(* of the caller that calls it.                                            *)
(*                                                                         *)
(* One action below is one block.  The requests that are between two       *)
(* blocks are kept, with their local variables, in the bag inflight.       *)
(*                                                                         *)
(* The Maps of the store are sets of records.  A Map iterates in insertion *)
(* order; ids grow and a key that was deleted is never set again, so the   *)
(* iteration order of every Map is the order of ascending id.              *)
(***************************************************************************)
EXTENDS Integers, Sequences, FiniteSets, Bags, TLC

\* Total number of entities (users, posts, likes, comments, edges, stories)
\* the clients create in one run.
MaxCreates == 4

\* The client connections; each has at most one request outstanding.
Clients == {"c1", "c2"}

\* Time is counted in half days: a Date is the number of half days since the
\* server started, and 24 * 60 * 60 * 1000 milliseconds are two of them.
TwentyFourHours == 2

VARIABLES
    users,             \* MemStorage.users
    posts,             \* MemStorage.posts
    likes,             \* MemStorage.likes
    comments,          \* MemStorage.comments
    friends,           \* MemStorage.friends
    stories,           \* MemStorage.stories
    savedPosts,        \* MemStorage.savedPosts
    currentUserId,
    currentPostId,
    currentLikeId,
    currentCommentId,
    currentFriendId,
    currentStoryId,
    now,               \* the clock: the value of the last new Date()
    inflight,          \* requests suspended at an await, with their locals
    response           \* the answer on its way to the client: the request
                       \* it answers and what the storage method returned

store == <<users, posts, likes, comments, friends, stories>>

counters == <<currentUserId, currentPostId, currentLikeId, currentCommentId,
              currentFriendId, currentStoryId>>

vars == <<users, posts, likes, comments, friends, stories, savedPosts,
          currentUserId, currentPostId, currentLikeId, currentCommentId,
          currentFriendId, currentStoryId, now, inflight, response>>

\* The id of "undefined": no entity has it, ids start at 1.
NoId == 0

\* The administrator is the user whose id is 1.
AdminId == 1

\* The values of a field besides strings and times: the field is not set
\* (undefined), or set to null.
Undefined == "undefined"

Null == "null"

\* No answer is on its way to a client.
NoResponse == [op |-> "none", arg |-> NoId, value |-> <<>>]

-----------------------------------------------------------------------------
(* Reads of the store.                                                      *)

UserIds == {u.id : u \in users}

PostIds == {p.id : p \in posts}

\* Array.prototype.find over a Map's values: the first match in insertion
\* order, undefined (NoId) when nothing matches.
FindId(S) == IF S = {} THEN NoId
             ELSE CHOOSE i \in {e.id : e \in S} : \A e \in S : i <= e.id

getUser(id) == IF id \in UserIds THEN id ELSE NoId

getPost(id) == IF id \in PostIds THEN id ELSE NoId

\* The author of a post that getPost found.
PostAuthor(id) == (CHOOSE p \in posts : p.id = id).userId

getLike(userId, postId) ==
    FindId({l \in likes : l.userId = userId /\ l.postId = postId})

getLikesByPost(postId) == {l \in likes : l.postId = postId}


getFriendRequest_directed(userId, friendId) ==
    FindId({f \in friends : f.userId = userId /\ f.friendId = friendId})

getFriendRequest_skipRejected(userId, friendId) ==
    FindId({f \in friends :
              /\ f.status # "rejected"
              /\ \/ (f.userId = userId /\ f.friendId = friendId)
                 \/ (f.userId = friendId /\ f.friendId = userId)})

getFriendRequest(userId, friendId) ==
    FindId({f \in friends :
              \/ (f.userId = userId /\ f.friendId = friendId)
              \/ (f.userId = friendId /\ f.friendId = userId)})

\* The connections getFriends selects, each joined with the id of the other
\* party and with the user record found for it (NoId when getUser finds none).
getFriends_requesterOnly(userId) ==
    {[id |-> f.id, other |-> f.friendId, user |-> getUser(f.friendId)] :
        f \in {g \in friends : g.status = "accepted" /\ g.userId = userId}}

getFriends(userId) ==
    {[id    |-> f.id,
      other |-> IF f.userId = userId THEN f.friendId ELSE f.userId,
      user  |-> getUser(IF f.userId = userId THEN f.friendId ELSE f.userId)] :
        f \in {g \in friends :
                 /\ g.status = "accepted"
                 /\ (g.userId = userId \/ g.friendId = userId)}}

\* The ids of a Map's values in iteration order: ascending.
RECURSIVE InOrder(_)
InOrder(S) ==
    IF S = {} THEN <<>>
    ELSE <<FindId(S)>> \o InOrder({e \in S : e.id # FindId(S)})

\* Array.prototype.slice(0, n).
Slice(s, n) == SubSeq(s, 1, IF Len(s) < n THEN Len(s) ELSE n)

\* The number of suggestions getFriendSuggestions returns at most.
SuggestionLimit == 5

\* The ids of the users getFriendSuggestions returns: allUsers without the
\* users in friendIds (the other party of each of getFriends' connections,
\* and userId), cut to the first five.
getFriendSuggestions(userId) ==
    Slice(InOrder({u \in users :
                     u.id \notin {e.other : e \in getFriends(userId)}
                                   \cup {userId}}),
          SuggestionLimit)

\* The post that a stable sort by createdAt descending puts first: the newest,
\* and among the posts of one timestamp the one inserted first.
FirstOfSorted(S) ==
    CHOOSE p \in S : \A q \in S :
        \/ p.createdAt > q.createdAt
        \/ (p.createdAt = q.createdAt /\ p.id <= q.id)

RECURSIVE SortNewestFirst(_)
SortNewestFirst(S) ==
    IF S = {} THEN <<>>
    ELSE <<FirstOfSorted(S).id>> \o SortNewestFirst(S \ {FirstOfSorted(S)})

\* The posts getPostsByUser lists (the enrichment it adds is read-only).
getPostsByUser(userId) == SortNewestFirst({p \in posts : p.userId = userId})

\* The comment that a stable sort by createdAt ascending puts first: the
\* oldest, and among the comments of one timestamp the one inserted first.
OldestOf(S) ==
    CHOOSE c \in S : \A d \in S :
        \/ c.createdAt < d.createdAt
        \/ (c.createdAt = d.createdAt /\ c.id <= d.id)

RECURSIVE SortOldestFirst(_)
SortOldestFirst(S) ==
    IF S = {} THEN <<>>
    ELSE <<OldestOf(S).id>> \o SortOldestFirst(S \ {OldestOf(S)})

getCommentsByPost_newestFirst(postId) ==
    SortNewestFirst({c \in comments : c.postId = postId})

\* The ids of the comments getCommentsByPost returns.
getCommentsByPost(postId) ==
    SortOldestFirst({c \in comments : c.postId = postId})

getPostsForFeed_noSelf(userId) ==
    SortNewestFirst({p \in posts :
                       p.userId \in {e.other : e \in getFriends(userId)}})

\* The ids of the posts getPostsForFeed returns: the posts whose author is in
\* friendIds (the other party of each of getFriends' connections, and userId)
\* sorted by createdAt descending.  What it adds to each post is read-only.
getPostsForFeed(userId) ==
    SortNewestFirst({p \in posts :
                       p.userId \in {e.other : e \in getFriends(userId)}
                                     \cup {userId}})

enhancedPosts_likedByAnyone(userId) ==
    [k \in 1..Len(getPostsForFeed(userId)) |->
        LET id == getPostsForFeed(userId)[k]
        IN  [id |-> id,
             likes |-> Cardinality(getLikesByPost(id)),
             liked |-> getLikesByPost(id) # {},
             comments |-> getCommentsByPost(id)]]

\* What getPostsForFeed adds to each post of the feed: likes is
\* postLikes.length, liked is !!userLike, comments are the comments of
\* getCommentsByPost.  (The author records it adds are not modelled.)
enhancedPosts(userId) ==
    [k \in 1..Len(getPostsForFeed(userId)) |->
        LET id == getPostsForFeed(userId)[k]
        IN  [id |-> id,
             likes |-> Cardinality(getLikesByPost(id)),
             liked |-> getLike(userId, id) # NoId,
             comments |-> getCommentsByPost(id)]]

getStories_upTo24(userId) ==
    SortNewestFirst({st \in stories :
                       /\ st.userId \in {e.other : e \in getFriends(userId)}
                                      \cup {userId}
                       /\ st.createdAt >= now - TwentyFourHours})

\* The ids of the stories getStories returns: the stories of the users in
\* friendIds that were created after twentyFourHoursAgo, sorted by createdAt
\* descending.
getStories(userId) ==
    SortNewestFirst({st \in stories :
                       /\ st.userId \in {e.other : e \in getFriends(userId)}
                                      \cup {userId}
                       /\ st.createdAt > now - TwentyFourHours})

-----------------------------------------------------------------------------
(* Writes of the store that have no inner await.                            *)

\* The profile fields updateUser merges.
ProfileFields == {"name", "bio", "profileImage", "work", "education",
                  "currentCity", "hometown", "coverColor", "coverImage"}

\* A Date that is not set: undefined, or null.
NoDate == -1

\* { ...insertUser, id, createdAt: now, isBanned: false, bio: insertUser.bio
\* ?? null, profileImage: insertUser.profileImage ?? null }, for a
\* registration that gives a name, a username and a password.
NewUser(id, t) ==
    [id |-> id, username |-> id, password |-> "hash", createdAt |-> t,
     isBanned |-> FALSE, lastNameChange |-> NoDate,
     name |-> "a", bio |-> Null, profileImage |-> Null,
     work |-> Undefined, education |-> Undefined,
     currentCity |-> Undefined, hometown |-> Undefined,
     coverColor |-> Undefined, coverImage |-> Undefined]

createUser ==
    /\ users' = users \cup {NewUser(currentUserId, now)}
    /\ currentUserId' = currentUserId + 1

\* A partial update is the sequence of its <<key, value>> entries.  Has: the
\* key is there; Val: its value, undefined when it is not there.
Has(updates, key) == \E k \in 1..Len(updates) : updates[k][1] = key

Val(updates, key) ==
    IF Has(updates, key)
    THEN updates[CHOOSE k \in 1..Len(updates) : updates[k][1] = key][2]
    ELSE Undefined

MergeUser_nullKeeps(user, updates) ==
    [f \in DOMAIN user |->
        IF f \in ProfileFields /\ Val(updates, f) \notin {Undefined, Null}
        THEN Val(updates, f)
        ELSE user[f]]

\* updatedUser: { ...user, name: updates.name !== undefined ? updates.name :
\* user.name, ... } with one such line for each of the nine profile fields.
MergeUser(user, updates) ==
    [f \in DOMAIN user |->
        IF f \in ProfileFields /\ Val(updates, f) # Undefined
        THEN Val(updates, f)
        ELSE user[f]]

\* updateUser: nothing for an id that is not found, else the merged copy
\* replaces the user.
updateUser(id, updates) ==
    users' = IF getUser(id) = NoId THEN users
             ELSE {IF u.id = id THEN MergeUser(u, updates) ELSE u : u \in users}

ToggledUser_ban(user) == [user EXCEPT !.isBanned = TRUE]

\* updatedUser: { ...user, isBanned: !user.isBanned }.
ToggledUser(user) == [user EXCEPT !.isBanned = ~user.isBanned]

toggleUserBanStatus(userId) ==
    users' = IF getUser(userId) = NoId THEN users
             ELSE {IF u.id = userId THEN ToggledUser(u) ELSE u : u \in users}

\* this.savedPosts.get(userId) || []
SavedOf(userId) ==
    IF userId \in DOMAIN savedPosts THEN savedPosts[userId] ELSE <<>>

\* savedPosts.includes(postId)
Includes(list, postId) == \E k \in 1..Len(list) : list[k] = postId

\* this.savedPosts.set(userId, list)
SetSaved(userId, list) ==
    [k \in DOMAIN savedPosts \cup {userId} |->
        IF k = userId THEN list ELSE savedPosts[k]]

savePost_always(userId, postId) ==
    savedPosts' = SetSaved(userId, Append(SavedOf(userId), postId))

\* The array is pushed to and set only when it does not hold postId yet.
savePost(userId, postId) ==
    savedPosts' = IF Includes(SavedOf(userId), postId) THEN savedPosts
                  ELSE SetSaved(userId, Append(SavedOf(userId), postId))

\* A user who never saved a post has no array, and gets none.
unsavePost(userId, postId) ==
    savedPosts' = IF userId \in DOMAIN savedPosts
                  THEN SetSaved(userId,
                                SelectSeq(savedPosts[userId],
                                          LAMBDA id : id # postId))
                  ELSE savedPosts

\* What getSavedPosts makes of a saved id.
SavedEntry(postId) ==
    [id |-> postId,
     likes |-> Cardinality(getLikesByPost(postId)),
     comments |-> getCommentsByPost(postId)]

getSavedPosts_keepDeleted(userId) ==
    [k \in 1..Len(SavedOf(userId)) |-> SavedEntry(SavedOf(userId)[k])]

\* getSavedPosts: the saved ids in their order, each made into the post
\* with its like count and comments, and the ids getPost finds no post for
\* filtered out.
getSavedPosts(userId) ==
    LET found == SelectSeq(SavedOf(userId),
                           LAMBDA postId : getPost(postId) # NoId)
    IN  [k \in 1..Len(found) |-> SavedEntry(found[k])]

createPost_sizeAsId(userId, t) ==
    /\ posts' = posts \cup {[id |-> Cardinality(posts) + 1, userId |-> userId,
                             content |-> "a", createdAt |-> t]}
    /\ currentPostId' = currentPostId + 1
    /\ now' = t

\* Every post is created with the content "a".
createPost(userId, t) ==
    /\ posts' = posts \cup {[id |-> currentPostId, userId |-> userId,
                             content |-> "a", createdAt |-> t]}
    /\ currentPostId' = currentPostId + 1
    /\ now' = t

\* What this.posts.get(id) returns: <<>> for undefined, else the post.
PostRead(id) == IF id \in PostIds THEN <<CHOOSE p \in posts : p.id = id>>
                ELSE <<>>

updatePost_upsert(id, read, content) ==
    posts' = {p \in posts : p.id # id}
             \cup {[id |-> id, userId |-> NoId, content |-> content,
                    createdAt |-> now]}

\* updatePost: read is what its "await this.getPost(id)" returned, and
\* posts.set(id, { ...post, content }) puts the changed copy of it under the
\* key.
updatePost(id, read, content) ==
    posts' = IF read = <<>> THEN posts
             ELSE {p \in posts : p.id # id}
                  \cup {[read[1] EXCEPT !.content = content]}

createLike(userId, postId) ==
    /\ likes' = likes \cup {[id |-> currentLikeId, userId |-> userId,
                             postId |-> postId]}
    /\ currentLikeId' = currentLikeId + 1

createComment(userId, postId) ==
    /\ comments' = comments \cup {[id |-> currentCommentId, userId |-> userId,
                                   postId |-> postId, createdAt |-> now]}
    /\ currentCommentId' = currentCommentId + 1

\* status: insertFriend.status ?? 'pending'.
createFriendRequest(userId, friendId, status) ==
    /\ friends' = friends \cup
         {[id |-> currentFriendId, userId |-> userId, friendId |-> friendId,
           status |-> IF status = "undefined" THEN "pending" ELSE status]}
    /\ currentFriendId' = currentFriendId + 1

SetStatus(id, status) ==
    friends' = {IF f.id = id THEN [f EXCEPT !.status = status] ELSE f :
                   f \in friends}

acceptFriendRequest(id) == SetStatus(id, "accepted")

rejectFriendRequest(id) == SetStatus(id, "rejected")

createStory(userId) ==
    /\ stories' = stories \cup {[id |-> currentStoryId, userId |-> userId,
                                 createdAt |-> now]}
    /\ currentStoryId' = currentStoryId + 1

\* deletePost after its "await this.getPost(id)": post is what that read
\* returned.
deletePostCascade_keepComments(id, post) ==
    IF post = NoId
    THEN UNCHANGED <<posts, likes, comments>>
    ELSE /\ posts' = {p \in posts : p.id # id}
         /\ likes' = {l \in likes : l.postId # id}
         /\ UNCHANGED comments

deletePostCascade(id, post) ==
    IF post = NoId
    THEN UNCHANGED <<posts, likes, comments>>
    ELSE /\ posts' = {p \in posts : p.id # id}
         /\ likes' = {l \in likes : l.postId # id}
         /\ comments' = {c \in comments : c.postId # id}

deleteUserRest_keepFriends(id) ==
    /\ likes' = {l \in likes : l.userId # id}
    /\ comments' = {c \in comments : c.userId # id}
    /\ UNCHANGED friends

\* deleteUser after its loop over the user's posts.
deleteUserRest(id) ==
    /\ likes' = {l \in likes : l.userId # id}
    /\ comments' = {c \in comments : c.userId # id}
    /\ friends' = {f \in friends : f.userId # id /\ f.friendId # id}

\* deleteUser run from its first line to its last with no other handler in
\* between: the user, the user's posts with their likes and comments, the
\* user's likes and comments and the edges of the user go; nothing for an
\* id that is not found.
deleteUser(id) ==
    IF getUser(id) = NoId
    THEN UNCHANGED <<users, posts, likes, comments, friends>>
    ELSE LET userPosts == {p.id : p \in {q \in posts : q.userId = id}}
         IN  /\ users' = {u \in users : u.id # id}
             /\ posts' = {p \in posts : p.id \notin userPosts}
             /\ likes' = {l \in likes :
                             l.postId \notin userPosts /\ l.userId # id}
             /\ comments' = {c \in comments :
                                c.postId \notin userPosts /\ c.userId # id}
             /\ friends' = {f \in friends :
                               f.userId # id /\ f.friendId # id}

\* removeLike: the like getLike finds for the pair goes; nothing when it
\* finds none.
removeLike(userId, postId) ==
    likes' = {l \in likes : l.id # getLike(userId, postId)}

-----------------------------------------------------------------------------
(* Requests.                                                                *)

\* A request suspended at an await: the route (kind), the await it is at
\* (pc), req.user.id (uid), the id in its path or body (arg), and the locals
\* of the handler and of the storage method it is in: the value the awaited
\* read returned (loc, an id, NoId for undefined), the author of the post a
\* read returned (author), and deleteUser's userPosts with the position i of
\* its loop.
Req(kind, pc, uid, arg, loc, author) ==
    [kind |-> kind, pc |-> pc, uid |-> uid, arg |-> arg, loc |-> loc,
     author |-> author, userPosts |-> <<>>, i |-> 0]

Suspended == BagToSet(inflight)

Suspend(r) == inflight' = inflight (+) SetToBag({r})

Resume(r, r2) == inflight' = (inflight (-) SetToBag({r})) (+) SetToBag({r2})

Respond(r) == inflight' = inflight (-) SetToBag({r})

\* A client without an outstanding request is there to send one.
CanAccept == BagCardinality(inflight) < Cardinality(Clients)

Created == (currentUserId - 1) + (currentPostId - 1) + (currentLikeId - 1)
           + (currentCommentId - 1) + (currentFriendId - 1)
           + (currentStoryId - 1)

\* The clients stop creating at MaxCreates entities; a request in flight keeps
\* the room it may need.
RoomToCreate == Created + BagCardinality(inflight) < MaxCreates

\* The ids a client may name: those the store has handed out, whether the
\* entity still exists or not.
UserArgs == 1..(currentUserId - 1)

PostArgs == 1..(currentPostId - 1)

FriendArgs == 1..(currentFriendId - 1)

\* isAuthenticated: req.user is a user of the store.
isAuthenticated(uid) == uid \in UserIds

isAdmin(uid) == isAuthenticated(uid) /\ uid = AdminId

-----------------------------------------------------------------------------
(* Routes of one block.                                                     *)

\* Registration: storage.createUser.
Register ==
    /\ RoomToCreate
    /\ createUser
    /\ UNCHANGED <<posts, likes, comments, friends, stories, currentPostId,
                   currentLikeId, currentCommentId, currentFriendId,
                   currentStoryId, now, inflight>>
    /\ UNCHANGED savedPosts /\ response' = NoResponse

\* POST /api/posts
PostCreate ==
    \E uid \in UserIds, t \in {now, now + 1} :
        /\ isAuthenticated(uid)
        /\ RoomToCreate
        /\ createPost(uid, t)
        /\ UNCHANGED <<users, likes, comments, friends, stories, currentUserId,
                       currentLikeId, currentCommentId, currentFriendId,
                       currentStoryId, inflight>>
        /\ UNCHANGED savedPosts /\ response' = NoResponse

\* PUT /api/friends/request/:requestId/accept
FriendAccept ==
    \E uid \in UserIds, requestId \in FriendArgs :
        /\ isAuthenticated(uid)
        /\ acceptFriendRequest(requestId)
        /\ UNCHANGED <<users, posts, likes, comments, stories, counters, now,
                       inflight>>
        /\ UNCHANGED savedPosts /\ response' = NoResponse

\* PUT /api/friends/request/:requestId/reject
FriendReject ==
    \E uid \in UserIds, requestId \in FriendArgs :
        /\ isAuthenticated(uid)
        /\ rejectFriendRequest(requestId)
        /\ UNCHANGED <<users, posts, likes, comments, stories, counters, now,
                       inflight>>
        /\ UNCHANGED savedPosts /\ response' = NoResponse

\* POST /api/stories
StoryCreate ==
    \E uid \in UserIds :
        /\ isAuthenticated(uid)
        /\ RoomToCreate
        /\ createStory(uid)
        /\ UNCHANGED <<users, posts, likes, comments, friends, currentUserId,
                       currentPostId, currentLikeId, currentCommentId,
                       currentFriendId, now, inflight>>
        /\ UNCHANGED savedPosts /\ response' = NoResponse

-----------------------------------------------------------------------------
(* POST /api/posts/:postId/like                                             *)

LikeGetPost ==
    \E uid \in UserIds, postId \in PostArgs :
        /\ isAuthenticated(uid)
        /\ CanAccept /\ RoomToCreate
        /\ Suspend(Req("like", "getPost", uid, postId, getPost(postId), NoId))
        /\ UNCHANGED <<store, counters, now>>
        /\ UNCHANGED savedPosts /\ response' = NoResponse

LikeGetLike(r) ==
    /\ r.kind = "like" /\ r.pc = "getPost"
    /\ IF r.loc = NoId
       THEN Respond(r)                                   \* 404
       ELSE Resume(r, [r EXCEPT !.pc = "getLike",
                                !.loc = getLike(r.uid, r.arg)])
    /\ UNCHANGED <<store, counters, now>>
    /\ UNCHANGED savedPosts /\ response' = NoResponse

LikeCreate(r) ==
    /\ r.kind = "like" /\ r.pc = "getLike"
    /\ IF r.loc # NoId
       THEN UNCHANGED <<likes, currentLikeId>>           \* 400
       ELSE createLike(r.uid, r.arg)                     \* 201
    /\ Respond(r)
    /\ UNCHANGED <<users, posts, comments, friends, stories, currentUserId,
                   currentPostId, currentCommentId, currentFriendId,
                   currentStoryId, now>>
    /\ UNCHANGED savedPosts /\ response' = NoResponse

-----------------------------------------------------------------------------
(* POST /api/posts/:postId/comments                                         *)

CommentGetPost ==
    \E uid \in UserIds, postId \in PostArgs :
        /\ isAuthenticated(uid)
        /\ CanAccept /\ RoomToCreate
        /\ Suspend(Req("comment", "getPost", uid, postId, getPost(postId),
                       NoId))
        /\ UNCHANGED <<store, counters, now>>
        /\ UNCHANGED savedPosts /\ response' = NoResponse

CommentCreate(r) ==
    /\ r.kind = "comment" /\ r.pc = "getPost"
    /\ IF r.loc = NoId
       THEN UNCHANGED <<comments, currentCommentId>>     \* 404
       ELSE createComment(r.uid, r.arg)                  \* 201
    /\ Respond(r)
    /\ UNCHANGED <<users, posts, likes, friends, stories, currentUserId,
                   currentPostId, currentLikeId, currentFriendId,
                   currentStoryId, now>>
    /\ UNCHANGED savedPosts /\ response' = NoResponse

-----------------------------------------------------------------------------
(* DELETE /api/posts/:postId                                                *)

PostDeleteGetPost ==
    \E uid \in UserIds, postId \in PostArgs :
        /\ isAuthenticated(uid)
        /\ CanAccept
        /\ Suspend(Req("deletePost", "getPost", uid, postId, getPost(postId),
                       IF getPost(postId) = NoId THEN NoId
                       ELSE PostAuthor(postId)))
        /\ UNCHANGED <<store, counters, now>>
        /\ UNCHANGED savedPosts /\ response' = NoResponse

\* The handler's checks, then deletePost up to its "await this.getPost(id)".
PostDeleteCheck(r) ==
    /\ r.kind = "deletePost" /\ r.pc = "getPost"
    /\ IF r.loc = NoId \/ r.author # r.uid
       THEN Respond(r)                                   \* 404, 403
       ELSE Resume(r, [r EXCEPT !.pc = "deletePost", !.loc = getPost(r.arg)])
    /\ UNCHANGED <<store, counters, now>>
    /\ UNCHANGED savedPosts /\ response' = NoResponse

\* deletePost after that await.
PostDeleteCascade(r) ==
    /\ r.kind = "deletePost" /\ r.pc = "deletePost"
    /\ deletePostCascade(r.arg, r.loc)
    /\ Respond(r)
    /\ UNCHANGED <<users, friends, stories, counters, now>>
    /\ UNCHANGED savedPosts /\ response' = NoResponse

-----------------------------------------------------------------------------
(* DELETE /api/admin/users/:userId                                          *)

\* isAdmin, the handler's refusal to delete user 1, then deleteUser up to its
\* "await this.getUser(id)".
UserDeleteGetUser ==
    \E uid \in UserIds, userId \in UserArgs :
        /\ isAdmin(uid)
        /\ userId # AdminId
        /\ CanAccept
        /\ Suspend(Req("deleteUser", "getUser", uid, userId, getUser(userId),
                       NoId))
        /\ UNCHANGED <<store, counters, now>>
        /\ UNCHANGED savedPosts /\ response' = NoResponse

\* deleteUser from there to the await of getPostsByUser: the user is deleted
\* and userPosts is listed.
UserDeleteRemove(r) ==
    /\ r.kind = "deleteUser" /\ r.pc = "getUser"
    /\ IF r.loc = NoId
       THEN /\ Respond(r)                                \* 404
            /\ UNCHANGED users
       ELSE /\ users' = {u \in users : u.id # r.arg}
            /\ Resume(r, [r EXCEPT !.pc = "loop", !.loc = NoId,
                                   !.userPosts = getPostsByUser(r.arg),
                                   !.i = 1])
    /\ UNCHANGED <<posts, likes, comments, friends, stories, counters, now>>
    /\ UNCHANGED savedPosts /\ response' = NoResponse

\* The loop over userPosts: deletePost(post.id) up to its await of getPost,
\* or, after the last post, the rest of deleteUser.
UserDeleteLoop(r) ==
    /\ r.kind = "deleteUser" /\ r.pc = "loop"
    /\ IF r.i <= Len(r.userPosts)
       THEN /\ Resume(r, [r EXCEPT !.pc = "deletePost",
                                   !.loc = getPost(r.userPosts[r.i])])
            /\ UNCHANGED <<likes, comments, friends>>
       ELSE /\ deleteUserRest(r.arg)
            /\ Respond(r)                                \* 200
    /\ UNCHANGED <<users, posts, stories, counters, now>>
    /\ UNCHANGED savedPosts /\ response' = NoResponse

\* deletePost(post.id) after its await, back to the loop.
UserDeletePost(r) ==
    /\ r.kind = "deleteUser" /\ r.pc = "deletePost"
    /\ deletePostCascade(r.userPosts[r.i], r.loc)
    /\ Resume(r, [r EXCEPT !.pc = "loop", !.loc = NoId, !.i = r.i + 1])
    /\ UNCHANGED <<users, friends, stories, counters, now>>
    /\ UNCHANGED savedPosts /\ response' = NoResponse

-----------------------------------------------------------------------------
(* POST /api/friends/request                                                *)

FriendGetUser ==
    \E uid \in UserIds, friendId \in UserArgs :
        /\ isAuthenticated(uid)
        /\ uid # friendId                                \* else 400
        /\ CanAccept /\ RoomToCreate
        /\ Suspend(Req("friendRequest", "getUser", uid, friendId,
                       getUser(friendId), NoId))
        /\ UNCHANGED <<store, counters, now>>
        /\ UNCHANGED savedPosts /\ response' = NoResponse

FriendGetRequest(r) ==
    /\ r.kind = "friendRequest" /\ r.pc = "getUser"
    /\ IF r.loc = NoId
       THEN Respond(r)                                   \* 404
       ELSE Resume(r, [r EXCEPT !.pc = "getFriendRequest",
                                !.loc = getFriendRequest(r.uid, r.arg)])
    /\ UNCHANGED <<store, counters, now>>
    /\ UNCHANGED savedPosts /\ response' = NoResponse

FriendCreate(r) ==
    /\ r.kind = "friendRequest" /\ r.pc = "getFriendRequest"
    /\ IF r.loc # NoId
       THEN UNCHANGED <<friends, currentFriendId>>       \* 400
       ELSE createFriendRequest(r.uid, r.arg, "pending") \* 201
    /\ Respond(r)
    /\ UNCHANGED <<users, posts, likes, comments, stories, currentUserId,
                   currentPostId, currentLikeId, currentCommentId,
                   currentStoryId, now>>
    /\ UNCHANGED savedPosts /\ response' = NoResponse

-----------------------------------------------------------------------------
(* updateUser and toggleUserBanStatus, called while another call on a user  *)
(* is at its await.                                                         *)

\* What this.users.get(id) returns: <<>> for undefined, else the user.
UserRead(id) == IF id \in UserIds THEN <<CHOOSE u \in users : u.id = id>>
                ELSE <<>>

\* A call suspended at "await this.getUser(id)": the method, its arguments
\* and the user the read returned.
UserCall(kind, id, updates, read) ==
    [kind |-> kind, id |-> id, updates |-> updates, read |-> read]

\* The updates of the overlapping calls: each sets one field.
RaceUpdates == {<<<<"bio", "b">>>>, <<<<"work", "b">>>>}

\* updateUser up to its await.
UpdateUserGet ==
    \E id \in UserArgs, updates \in RaceUpdates :
        /\ CanAccept
        /\ Suspend(UserCall("updateUser", id, updates, UserRead(id)))
        /\ UNCHANGED <<store, savedPosts, counters, now, response>>

\* updateUser after its await: users.set(id, {...updatedUser}), built from
\* the user that was read.
UpdateUserSet(r) ==
    /\ r.kind = "updateUser"
    /\ users' = IF r.read = <<>> THEN users
                ELSE {u \in users : u.id # r.id}
                     \cup {MergeUser(r.read[1], r.updates)}
    /\ Respond(r)
    /\ UNCHANGED <<posts, likes, comments, friends, stories, savedPosts,
                   counters, now, response>>

\* toggleUserBanStatus up to its await.
ToggleBanGet ==
    \E userId \in UserArgs :
        /\ CanAccept
        /\ Suspend(UserCall("toggleUserBanStatus", userId, <<>>,
                            UserRead(userId)))
        /\ UNCHANGED <<store, savedPosts, counters, now, response>>

\* toggleUserBanStatus after its await: users.set(userId, updatedUser),
\* built from the user that was read.
ToggleBanSet(r) ==
    /\ r.kind = "toggleUserBanStatus"
    /\ users' = IF r.read = <<>> THEN users
                ELSE {u \in users : u.id # r.id} \cup {ToggledUser(r.read[1])}
    /\ Respond(r)
    /\ UNCHANGED <<posts, likes, comments, friends, stories, savedPosts,
                   counters, now, response>>

-----------------------------------------------------------------------------
(* Requests served one at a time: no other handler runs between the blocks  *)
(* of a handler, so a step is a whole handler, and a request is sent when   *)
(* the answer to the one before it has arrived.  Each takes the number of   *)
(* entities up to which the clients go on creating.                         *)

\* No answer is on its way.
Idle == response = NoResponse

\* Registration: storage.createUser.
SerialRegister(maxUsers) ==
    /\ Idle
    /\ currentUserId <= maxUsers
    /\ createUser
    /\ response' = NoResponse
    /\ UNCHANGED <<posts, likes, comments, friends, stories, savedPosts,
                   currentPostId, currentLikeId, currentCommentId,
                   currentFriendId, currentStoryId, now, inflight>>

\* POST /api/friends/request
SerialFriendRequest(maxEdges) ==
    \E uid \in UserIds, friendId \in UserArgs :
        /\ Idle
        /\ isAuthenticated(uid)
        /\ uid # friendId                                \* else 400
        /\ getUser(friendId) # NoId                      \* else 404
        /\ getFriendRequest(uid, friendId) = NoId        \* else 400
        /\ currentFriendId <= maxEdges
        /\ createFriendRequest(uid, friendId, "pending")
        /\ response' = NoResponse
        /\ UNCHANGED <<users, posts, likes, comments, stories, savedPosts,
                       currentUserId, currentPostId, currentLikeId,
                       currentCommentId, currentStoryId, now, inflight>>

\* PUT /api/friends/request/:requestId/accept
SerialFriendAccept == Idle /\ FriendAccept

\* PUT /api/friends/request/:requestId/reject
SerialFriendReject == Idle /\ FriendReject

\* POST /api/posts
SerialPostCreate(maxPosts) ==
    \E uid \in UserIds, t \in {now, now + 1} :
        /\ Idle
        /\ isAuthenticated(uid)
        /\ currentPostId <= maxPosts
        /\ createPost(uid, t)
        /\ response' = NoResponse
        /\ UNCHANGED <<users, likes, comments, friends, stories, savedPosts,
                       currentUserId, currentLikeId, currentCommentId,
                       currentFriendId, currentStoryId, inflight>>

\* POST /api/posts/:postId/comments
SerialCommentCreate(maxComments) ==
    \E uid \in UserIds, postId \in PostArgs :
        /\ Idle
        /\ isAuthenticated(uid)
        /\ getPost(postId) # NoId                        \* else 404
        /\ currentCommentId <= maxComments
        /\ createComment(uid, postId)
        /\ response' = NoResponse
        /\ UNCHANGED <<users, posts, likes, friends, stories, savedPosts,
                       currentUserId, currentPostId, currentLikeId,
                       currentFriendId, currentStoryId, now, inflight>>

\* GET /api/posts/:postId/comments
CommentsGet ==
    \E uid \in UserIds, postId \in PostArgs :
        /\ Idle
        /\ isAuthenticated(uid)
        /\ getPost(postId) # NoId                        \* else 404
        /\ response' = [op |-> "getCommentsByPost", arg |-> postId,
                        value |-> getCommentsByPost(postId)]
        /\ UNCHANGED <<store, savedPosts, counters, now, inflight>>

\* POST /api/stories
SerialStoryCreate(maxStories) ==
    \E uid \in UserIds :
        /\ Idle
        /\ isAuthenticated(uid)
        /\ currentStoryId <= maxStories
        /\ createStory(uid)
        /\ response' = NoResponse
        /\ UNCHANGED <<users, posts, likes, comments, friends, savedPosts,
                       currentUserId, currentPostId, currentLikeId,
                       currentCommentId, currentFriendId, now, inflight>>

\* GET /api/stories
StoriesGet ==
    \E uid \in UserIds :
        /\ Idle
        /\ isAuthenticated(uid)
        /\ response' = [op |-> "getStories", arg |-> uid,
                        value |-> getStories(uid)]
        /\ UNCHANGED <<store, savedPosts, counters, now, inflight>>

\* Half a day passes without a request.
Tick(maxClock) ==
    /\ Idle
    /\ now < maxClock
    /\ now' = now + 1
    /\ response' = NoResponse
    /\ UNCHANGED <<store, savedPosts, counters, inflight>>

\* The partial updates the callers of updateUser pass: none or one of the
\* profile fields, set to null or to a string; the cover upload's pair of
\* fields; lastNameChange with a Date.
Partials ==
    {<<>>}
    \cup {<<<<f, v>>>> : f \in ProfileFields, v \in {Null, "b"}}
    \cup {<<<<"coverImage", "b">>, <<"coverColor", Null>>>>}
    \cup {<<<<"lastNameChange", t>>>> : t \in {now + 1}}

\* The profile fields, over all users, that do not hold the value the
\* registration gave them.
Edited ==
    {e \in UserIds \X ProfileFields :
        (CHOOSE u \in users : u.id = e[1])[e[2]] # NewUser(0, 0)[e[2]]}

\* storage.updateUser(id, updates), as the profile routes call it.
SerialUpdateUser(id, updates, maxEdits) ==
    /\ Idle
    /\ isAuthenticated(id)
    /\ Cardinality(Edited) < maxEdits
    /\ updateUser(id, updates)
    /\ response' = [op |-> "updateUser", arg |-> id, value |-> updates]
    /\ UNCHANGED <<posts, likes, comments, friends, stories, savedPosts,
                   counters, now, inflight>>

\* PUT /api/admin/users/:userId/ban
SerialToggleBan(uid, userId) ==
    /\ Idle
    /\ isAdmin(uid)
    /\ userId # AdminId                                  \* else 400
    /\ getUser(userId) # NoId                            \* else 404
    /\ toggleUserBanStatus(userId)
    /\ response' = [op |-> "toggleUserBanStatus", arg |-> userId,
                    value |-> <<>>]
    /\ UNCHANGED <<posts, likes, comments, friends, stories, savedPosts,
                   counters, now, inflight>>

\* The entries of the saved lists, over all users.
Saved ==
    UNION {{<<u, k>> : k \in 1..Len(savedPosts[u])} : u \in DOMAIN savedPosts}

\* POST /api/posts/:postId/save; the post need not exist.
SerialSavePost(uid, postId, maxSaved) ==
    /\ Idle
    /\ isAuthenticated(uid)
    /\ Cardinality(Saved) < maxSaved \/ Includes(SavedOf(uid), postId)
    /\ savePost(uid, postId)
    /\ response' = [op |-> "savePost", arg |-> uid, value |-> <<postId>>]
    /\ UNCHANGED <<users, posts, likes, comments, friends, stories,
                   counters, now, inflight>>

\* DELETE /api/posts/:postId/save
SerialUnsavePost(uid, postId) ==
    /\ Idle
    /\ isAuthenticated(uid)
    /\ unsavePost(uid, postId)
    /\ response' = [op |-> "unsavePost", arg |-> uid, value |-> <<postId>>]
    /\ UNCHANGED <<users, posts, likes, comments, friends, stories,
                   counters, now, inflight>>

\* The answer to a request of user uid that may be refused: the route, the
\* id in its path, and the user with the HTTP status.
Answer(op, arg, uid, status) ==
    [op |-> op, arg |-> arg, value |-> <<uid, status>>]

\* The contents the clients send in req.body.content.
Contents == {"b"}

SerialPostEdit_anyUser(uid, postId, content) ==
    /\ Idle
    /\ isAuthenticated(uid)
    /\ IF getPost(postId) = NoId
       THEN /\ UNCHANGED posts
            /\ response' = Answer("editPost", postId, uid, 404)
       ELSE /\ updatePost(postId, PostRead(postId), content)
            /\ response' = Answer("editPost", postId, uid, 200)
    /\ UNCHANGED <<users, likes, comments, friends, stories, savedPosts,
                   counters, now, inflight>>

\* PUT /api/posts/:postId
SerialPostEdit(uid, postId, content) ==
    /\ Idle
    /\ isAuthenticated(uid)
    /\ IF getPost(postId) = NoId
       THEN /\ UNCHANGED posts
            /\ response' = Answer("editPost", postId, uid, 404)
       ELSE IF PostAuthor(postId) # uid
       THEN /\ UNCHANGED posts
            /\ response' = Answer("editPost", postId, uid, 403)
       ELSE /\ updatePost(postId, PostRead(postId), content)
            /\ response' = Answer("editPost", postId, uid, 200)
    /\ UNCHANGED <<users, likes, comments, friends, stories, savedPosts,
                   counters, now, inflight>>

\* DELETE /api/posts/:postId
SerialPostDelete(uid, postId) ==
    /\ Idle
    /\ isAuthenticated(uid)
    /\ IF getPost(postId) = NoId
       THEN /\ UNCHANGED <<posts, likes, comments>>
            /\ response' = Answer("deletePost", postId, uid, 404)
       ELSE IF PostAuthor(postId) # uid
       THEN /\ UNCHANGED <<posts, likes, comments>>
            /\ response' = Answer("deletePost", postId, uid, 403)
       ELSE /\ deletePostCascade(postId, getPost(postId))
            /\ response' = Answer("deletePost", postId, uid, 200)
    /\ UNCHANGED <<users, friends, stories, savedPosts, counters, now,
                   inflight>>

\* DELETE /api/admin/posts/:postId
SerialAdminPostDelete(uid, postId) ==
    /\ Idle
    /\ IF ~isAdmin(uid)
       THEN /\ UNCHANGED <<posts, likes, comments>>
            /\ response' = Answer("adminDeletePost", postId, uid, 403)
       ELSE /\ deletePostCascade(postId, getPost(postId))
            /\ response' = Answer("adminDeletePost", postId, uid,
                                   IF getPost(postId) = NoId THEN 404
                                   ELSE 200)
    /\ UNCHANGED <<users, friends, stories, savedPosts, counters, now,
                   inflight>>

\* DELETE /api/admin/users/:userId
SerialAdminUserDelete(uid, userId) ==
    /\ Idle
    /\ IF ~isAdmin(uid)
       THEN /\ UNCHANGED <<users, posts, likes, comments, friends>>
            /\ response' = Answer("adminDeleteUser", userId, uid, 403)
       ELSE IF userId = AdminId
       THEN /\ UNCHANGED <<users, posts, likes, comments, friends>>
            /\ response' = Answer("adminDeleteUser", userId, uid, 400)
       ELSE /\ deleteUser(userId)
            /\ response' = Answer("adminDeleteUser", userId, uid,
                                   IF getUser(userId) = NoId THEN 404
                                   ELSE 200)
    /\ UNCHANGED <<stories, savedPosts, counters, now, inflight>>

\* PUT /api/friends/request/:requestId/accept, with the user who sent it.
SerialEdgeAccept(uid, requestId) ==
    /\ Idle
    /\ isAuthenticated(uid)
    /\ acceptFriendRequest(requestId)
    /\ response' = Answer("acceptFriendRequest", requestId, uid,
                          IF requestId \in {f.id : f \in friends} THEN 200
                          ELSE 404)
    /\ UNCHANGED <<users, posts, likes, comments, stories, savedPosts,
                   counters, now, inflight>>

\* PUT /api/friends/request/:requestId/reject, with the user who sent it.
SerialEdgeReject(uid, requestId) ==
    /\ Idle
    /\ isAuthenticated(uid)
    /\ rejectFriendRequest(requestId)
    /\ response' = Answer("rejectFriendRequest", requestId, uid,
                          IF requestId \in {f.id : f \in friends} THEN 200
                          ELSE 404)
    /\ UNCHANGED <<users, posts, likes, comments, stories, savedPosts,
                   counters, now, inflight>>

\* The values of insertFriend.status: the field is left out, or is one of
\* the three statuses.
Statuses == {"undefined", "pending", "accepted", "rejected"}

\* storage.createFriendRequest(insertFriend), called with any InsertFriend.
StoreCreateFriendRequest(maxEdges) ==
    \E userId \in UserArgs, friendId \in UserArgs, status \in Statuses :
        /\ Idle
        /\ currentFriendId <= maxEdges
        /\ createFriendRequest(userId, friendId, status)
        /\ response' = NoResponse
        /\ UNCHANGED <<users, posts, likes, comments, stories, savedPosts,
                       currentUserId, currentPostId, currentLikeId,
                       currentCommentId, currentStoryId, now, inflight>>

\* POST /api/posts/:postId/like
SerialLikeCreate(maxLikes) ==
    \E uid \in UserIds, postId \in PostArgs :
        /\ Idle
        /\ isAuthenticated(uid)
        /\ getPost(postId) # NoId                        \* else 404
        /\ getLike(uid, postId) = NoId                   \* else 400
        /\ currentLikeId <= maxLikes
        /\ createLike(uid, postId)
        /\ response' = NoResponse
        /\ UNCHANGED <<users, posts, comments, friends, stories, savedPosts,
                       currentUserId, currentPostId, currentCommentId,
                       currentFriendId, currentStoryId, now, inflight>>

\* What a store method returned for id: whether it found the entity.
Returned(op, id, found) == [op |-> op, arg |-> id, value |-> <<found>>]

\* storage.removeLike(userId, postId)
StoreRemoveLike(userId, postId) ==
    /\ Idle
    /\ removeLike(userId, postId)
    /\ response' = [op |-> "removeLike", arg |-> userId,
                    value |-> <<postId>>]
    /\ UNCHANGED <<users, posts, comments, friends, stories, savedPosts,
                   counters, now, inflight>>

\* storage.deletePost(id)
StoreDeletePost(id) ==
    /\ Idle
    /\ deletePostCascade(id, getPost(id))
    /\ response' = Returned("deletePost", id, getPost(id) # NoId)
    /\ UNCHANGED <<users, friends, stories, savedPosts, counters, now,
                   inflight>>

\* storage.deleteUser(id)
StoreDeleteUser(id) ==
    /\ Idle
    /\ deleteUser(id)
    /\ response' = Returned("deleteUser", id, getUser(id) # NoId)
    /\ UNCHANGED <<stories, savedPosts, counters, now, inflight>>

\* storage.updateUser(id, updates)
StoreUpdateUser(id, updates) ==
    /\ Idle
    /\ updateUser(id, updates)
    /\ response' = Returned("updateUser", id, getUser(id) # NoId)
    /\ UNCHANGED <<posts, likes, comments, friends, stories, savedPosts,
                   counters, now, inflight>>

\* storage.updatePost(id, content)
StoreUpdatePost(id, content) ==
    /\ Idle
    /\ updatePost(id, PostRead(id), content)
    /\ response' = Returned("updatePost", id, getPost(id) # NoId)
    /\ UNCHANGED <<users, likes, comments, friends, stories, savedPosts,
                   counters, now, inflight>>

\* storage.toggleUserBanStatus(userId)
StoreToggleBan(userId) ==
    /\ Idle
    /\ toggleUserBanStatus(userId)
    /\ response' = Returned("toggleUserBanStatus", userId,
                            getUser(userId) # NoId)
    /\ UNCHANGED <<posts, likes, comments, friends, stories, savedPosts,
                   counters, now, inflight>>

\* storage.acceptFriendRequest(id)
StoreAccept(id) ==
    /\ Idle
    /\ acceptFriendRequest(id)
    /\ response' = Returned("acceptFriendRequest", id,
                            id \in {f.id : f \in friends})
    /\ UNCHANGED <<users, posts, likes, comments, stories, savedPosts,
                   counters, now, inflight>>

\* storage.rejectFriendRequest(id)
StoreReject(id) ==
    /\ Idle
    /\ rejectFriendRequest(id)
    /\ response' = Returned("rejectFriendRequest", id,
                            id \in {f.id : f \in friends})
    /\ UNCHANGED <<users, posts, likes, comments, stories, savedPosts,
                   counters, now, inflight>>

\* GET /api/posts, with what each post of the feed carries.
FeedEnhancedGet ==
    \E uid \in UserIds :
        /\ Idle
        /\ isAuthenticated(uid)
        /\ response' = [op |-> "enhancedPosts", arg |-> uid,
                        value |-> enhancedPosts(uid)]
        /\ UNCHANGED <<store, savedPosts, counters, now, inflight>>

SerialAdminToggleBan_anyTarget(uid, userId) ==
    /\ Idle
    /\ IF ~isAdmin(uid)
       THEN /\ UNCHANGED users
            /\ response' = Answer("adminToggleBan", userId, uid, 403)
       ELSE /\ toggleUserBanStatus(userId)
            /\ response' = Answer("adminToggleBan", userId, uid,
                                   IF getUser(userId) = NoId THEN 404
                                   ELSE 200)
    /\ UNCHANGED <<posts, likes, comments, friends, stories, savedPosts,
                   counters, now, inflight>>

\* PUT /api/admin/users/:userId/ban, sent by any user for any id.
SerialAdminToggleBan(uid, userId) ==
    /\ Idle
    /\ IF ~isAdmin(uid)
       THEN /\ UNCHANGED users
            /\ response' = Answer("adminToggleBan", userId, uid, 403)
       ELSE IF userId = AdminId
       THEN /\ UNCHANGED users
            /\ response' = Answer("adminToggleBan", userId, uid, 400)
       ELSE /\ toggleUserBanStatus(userId)
            /\ response' = Answer("adminToggleBan", userId, uid,
                                   IF getUser(userId) = NoId THEN 404
                                   ELSE 200)
    /\ UNCHANGED <<posts, likes, comments, friends, stories, savedPosts,
                   counters, now, inflight>>

\* The days a user waits between two changes of name.
CooldownDays == 15

\* Math.floor((Date.now() - lastNameChange.getTime()) / (1000 * 60 * 60 * 24))
daysSinceLastChange(user) == (now - user.lastNameChange) \div TwentyFourHours

\* The values of name and bio in the body of a profile update: left out, the
\* empty string, or a string.
BodyNames == {Undefined, "", "a", "b"}

BodyBios == {Undefined, "b"}

\* PUT /api/user/profile with { name, bio } in the body.  When name is truthy
\* and differs from the stored name, the handler answers 400 inside the
\* cooldown, else writes lastNameChange into the stored user; then updateUser
\* merges the body into the stored user.
SerialProfilePut(uid, name, bio) ==
    /\ Idle
    /\ isAuthenticated(uid)
    /\ LET currentUser == UserRead(uid)[1]
           changes == name \notin {Undefined, ""} /\ name # currentUser.name
           refused == /\ changes
                      /\ currentUser.lastNameChange # NoDate
                      /\ daysSinceLastChange(currentUser) < CooldownDays
           stamped == IF changes
                      THEN [currentUser EXCEPT !.lastNameChange = now]
                      ELSE currentUser
       IN  IF refused
           THEN /\ UNCHANGED users
                /\ response' = Answer("putProfile", uid, uid, 400)
           ELSE /\ users' = {u \in users : u.id # uid}
                             \cup {MergeUser(stamped, <<<<"name", name>>,
                                                       <<"bio", bio>>>>)}
                /\ response' = Answer("putProfile", uid, uid, 200)
    /\ UNCHANGED <<posts, likes, comments, friends, stories, savedPosts,
                   counters, now, inflight>>

\* GET /api/posts/saved
SavedGet ==
    \E uid \in UserIds :
        /\ Idle
        /\ isAuthenticated(uid)
        /\ response' = [op |-> "getSavedPosts", arg |-> uid,
                        value |-> getSavedPosts(uid)]
        /\ UNCHANGED <<store, savedPosts, counters, now, inflight>>

\* The answer is with the client; the server waits for the next request.
Deliver ==
    /\ ~Idle
    /\ response' = NoResponse
    /\ UNCHANGED <<store, savedPosts, counters, now, inflight>>

\* GET /api/posts
FeedGet ==
    \E uid \in UserIds :
        /\ Idle
        /\ isAuthenticated(uid)
        /\ response' = [op |-> "getPostsForFeed", arg |-> uid,
                        value |-> getPostsForFeed(uid)]
        /\ UNCHANGED <<store, savedPosts, counters, now, inflight>>

\* GET /api/friends/suggestions
SuggestionsGet ==
    \E uid \in UserIds :
        /\ Idle
        /\ isAuthenticated(uid)
        /\ response' = [op |-> "getFriendSuggestions", arg |-> uid,
                        value |-> getFriendSuggestions(uid)]
        /\ UNCHANGED <<store, savedPosts, counters, now, inflight>>

-----------------------------------------------------------------------------
(* The server.                                                              *)

Init ==
    /\ users = {} /\ posts = {} /\ likes = {} /\ comments = {}
    /\ friends = {} /\ stories = {}
    /\ currentUserId = 1 /\ currentPostId = 1 /\ currentLikeId = 1
    /\ currentCommentId = 1 /\ currentFriendId = 1 /\ currentStoryId = 1
    /\ savedPosts = <<>>
    /\ now = 0
    /\ inflight = EmptyBag
    /\ response = NoResponse

\* A request arrives and its handler runs to its first await, or to its end.
Arrive ==
    \/ Register
    \/ PostCreate
    \/ FriendAccept
    \/ FriendReject
    \/ StoryCreate
    \/ LikeGetPost
    \/ CommentGetPost
    \/ PostDeleteGetPost
    \/ UserDeleteGetUser
    \/ FriendGetUser

\* A suspended handler runs from its await to the next, or to its end.
Continue ==
    \/ \E r \in Suspended : LikeGetLike(r)
    \/ \E r \in Suspended : LikeCreate(r)
    \/ \E r \in Suspended : CommentCreate(r)
    \/ \E r \in Suspended : PostDeleteCheck(r)
    \/ \E r \in Suspended : PostDeleteCascade(r)
    \/ \E r \in Suspended : UserDeleteRemove(r)
    \/ \E r \in Suspended : UserDeleteLoop(r)
    \/ \E r \in Suspended : UserDeletePost(r)
    \/ \E r \in Suspended : FriendGetRequest(r)
    \/ \E r \in Suspended : FriendCreate(r)

Next == Arrive \/ Continue

\* The handlers of overlapping requests interleave at their awaits.
Spec == Init /\ [][Next]_vars

\* Requests that do not overlap: one arrives when none is suspended.
SerialNext == (inflight = EmptyBag /\ Arrive) \/ Continue

SerialSpec == Init /\ [][SerialNext]_vars

\* The clients of the friend suggestions: they register, send, accept and
\* reject friend requests, and ask for suggestions, one request at a time.
SuggestUsers == 7

SuggestEdges == 1

SuggestNext ==
    \/ SerialRegister(SuggestUsers)
    \/ SerialFriendRequest(SuggestEdges)
    \/ SerialFriendAccept
    \/ SerialFriendReject
    \/ SuggestionsGet
    \/ Deliver

SuggestSpec == Init /\ [][SuggestNext]_vars

\* The clients of the feed: they register, befriend, post and read their
\* feeds, one request at a time.
FeedUsers == 2

FeedEdges == 1

FeedPosts == 2

FeedNext ==
    \/ SerialRegister(FeedUsers)
    \/ SerialFriendRequest(FeedEdges)
    \/ SerialFriendAccept
    \/ SerialFriendReject
    \/ SerialPostCreate(FeedPosts)
    \/ FeedGet
    \/ Deliver

FeedSpec == Init /\ [][FeedNext]_vars

\* The clients of the comments: they register, post, comment and read the
\* comments of a post, one request at a time.  The clock moves with the posts.
CommentUsers == 1

CommentPosts == 2

CommentComments == 2

CommentNext ==
    \/ SerialRegister(CommentUsers)
    \/ SerialPostCreate(CommentPosts)
    \/ SerialCommentCreate(CommentComments)
    \/ CommentsGet
    \/ Deliver

CommentSpec == Init /\ [][CommentNext]_vars

\* The clients of the stories: they register, befriend, upload stories and
\* read them, one request at a time, while time passes.
StoryUsers == 2

StoryEdges == 1

StoryStories == 1

StoryClock == 2

StoryNext ==
    \/ SerialRegister(StoryUsers)
    \/ SerialFriendRequest(StoryEdges)
    \/ SerialFriendAccept
    \/ SerialStoryCreate(StoryStories)
    \/ Tick(StoryClock)
    \/ StoriesGet
    \/ Deliver

StorySpec == Init /\ [][StoryNext]_vars

\* The clients of the profiles: they register and edit their profiles, and
\* the administrator bans and unbans them, one request at a time.
ProfileUsers == 2

ProfileEdits == 1

ProfileNext ==
    \/ SerialRegister(ProfileUsers)
    \/ \E id \in UserArgs, updates \in Partials :
          SerialUpdateUser(id, updates, ProfileEdits)
    \/ \E uid \in UserIds, userId \in UserArgs : SerialToggleBan(uid, userId)
    \/ Deliver

ProfileSpec == Init /\ [][ProfileNext]_vars

\* The clients of the saved posts: they register, and save and unsave posts
\* by id, one request at a time.
SavedUsers == 1

\* The post ids the clients name, 1..SavedPostIds.
SavedPostIds == 4

\* The saved posts, over all users, up to which the clients go on saving.
SavedLen == 3

SavedNext ==
    \/ SerialRegister(SavedUsers)
    \/ \E uid \in UserIds, postId \in 1..SavedPostIds :
          SerialSavePost(uid, postId, SavedLen)
    \/ \E uid \in UserIds, postId \in 1..SavedPostIds :
          SerialUnsavePost(uid, postId)
    \/ Deliver

SavedSpec == Init /\ [][SavedNext]_vars

\* The clients of the posts: they register, post and comment, edit and
\* delete posts, and the administrator deletes posts and users, one request
\* at a time.
OwnerUsers == 2

OwnerPosts == 1

OwnerComments == 1

OwnerNext ==
    \/ SerialRegister(OwnerUsers)
    \/ SerialPostCreate(OwnerPosts)
    \/ SerialCommentCreate(OwnerComments)
    \/ \E uid \in UserIds, postId \in PostArgs, content \in Contents :
          SerialPostEdit(uid, postId, content)
    \/ \E uid \in UserIds, postId \in PostArgs : SerialPostDelete(uid, postId)
    \/ \E uid \in UserIds, postId \in PostArgs :
          SerialAdminPostDelete(uid, postId)
    \/ \E uid \in UserIds, userId \in UserArgs :
          SerialAdminUserDelete(uid, userId)
    \/ Deliver

OwnerSpec == Init /\ [][OwnerNext]_vars

\* The clients of the friend requests: they register, send friend requests
\* and answer them, one request at a time.
EdgeUsers == 3

EdgeEdges == 2

EdgeNext ==
    \/ SerialRegister(EdgeUsers)
    \/ SerialFriendRequest(EdgeEdges)
    \/ \E uid \in UserIds, requestId \in FriendArgs :
          SerialEdgeAccept(uid, requestId)
    \/ \E uid \in UserIds, requestId \in FriendArgs :
          SerialEdgeReject(uid, requestId)
    \/ Deliver

EdgeSpec == Init /\ [][EdgeNext]_vars

\* The callers of the store's friend methods: they create users and edges
\* and set the status of edges, one call at a time.
StoreEdgeUsers == 2

StoreEdgeEdges == 2

StoreEdgeNext ==
    \/ SerialRegister(StoreEdgeUsers)
    \/ StoreCreateFriendRequest(StoreEdgeEdges)
    \/ SerialFriendAccept
    \/ SerialFriendReject

StoreEdgeSpec == Init /\ [][StoreEdgeNext]_vars

\* The callers of the store's methods that look an entity up by id: the
\* clients create AbsentCreates users, posts, likes and edges in all, and
\* the methods are called, one call at a time, with the ids handed out and
\* with the next id, which names nothing.
AbsentCreates == 3

AbsentNext ==
    \/ Created < AbsentCreates /\ SerialRegister(AbsentCreates)
    \/ Created < AbsentCreates /\ SerialPostCreate(AbsentCreates)
    \/ Created < AbsentCreates /\ SerialLikeCreate(AbsentCreates)
    \/ Created < AbsentCreates /\ SerialFriendRequest(AbsentCreates)
    \/ \E userId \in 1..currentUserId, postId \in 1..currentPostId :
          StoreRemoveLike(userId, postId)
    \/ \E id \in 1..currentPostId : StoreDeletePost(id)
    \/ \E id \in 1..currentUserId : StoreDeleteUser(id)
    \/ \E id \in 1..currentUserId : StoreUpdateUser(id, <<<<"bio", "b">>>>)
    \/ \E id \in 1..currentPostId, content \in Contents :
          StoreUpdatePost(id, content)
    \/ \E userId \in 1..currentUserId : StoreToggleBan(userId)
    \/ \E id \in 1..currentFriendId : StoreAccept(id)
    \/ \E id \in 1..currentFriendId : StoreReject(id)
    \/ Deliver

AbsentSpec == Init /\ [][AbsentNext]_vars

\* The clients of the enhanced feed: they register, post, like and comment,
\* EnhanceCreates entities in all, and read their feeds, one request at a
\* time.
EnhanceCreates == 5

EnhanceNext ==
    \/ Created < EnhanceCreates /\ SerialRegister(EnhanceCreates)
    \/ Created < EnhanceCreates /\ SerialPostCreate(EnhanceCreates)
    \/ Created < EnhanceCreates /\ SerialLikeCreate(EnhanceCreates)
    \/ Created < EnhanceCreates /\ SerialCommentCreate(EnhanceCreates)
    \/ FeedEnhancedGet
    \/ Deliver

EnhanceSpec == Init /\ [][EnhanceNext]_vars

\* The callers of updateUser and toggleUserBanStatus: users register and
\* the calls overlap, each running from its await when the scheduler resumes
\* it.
RaceUsers == 1

RaceNext ==
    \/ SerialRegister(RaceUsers)
    \/ UpdateUserGet
    \/ ToggleBanGet
    \/ \E r \in Suspended : UpdateUserSet(r)
    \/ \E r \in Suspended : ToggleBanSet(r)

RaceSpec == Init /\ [][RaceNext]_vars

\* The clients of the admin routes: users register, and every user sends
\* requests to delete and to ban every user id, one request at a time.
AdminUsers == 3

AdminNext ==
    \/ SerialRegister(AdminUsers)
    \/ \E uid \in UserIds, userId \in UserArgs :
          SerialAdminUserDelete(uid, userId)
    \/ \E uid \in UserIds, userId \in UserArgs :
          SerialAdminToggleBan(uid, userId)
    \/ Deliver

AdminSpec == Init /\ [][AdminNext]_vars

\* The clients of the profile form: they register and send profile updates,
\* one request at a time, while time passes.
NameUsers == 1

NameClock == 31

NameNext ==
    \/ SerialRegister(NameUsers)
    \/ \E uid \in UserIds, name \in BodyNames, bio \in BodyBios :
          SerialProfilePut(uid, name, bio)
    \/ Tick(NameClock)
    \/ Deliver

NameSpec == Init /\ [][NameNext]_vars

\* The clients of the saved list: they register, post, like and comment,
\* ShelfCreates entities in all, save up to ShelfSaved posts, delete posts,
\* the administrator deletes users, and they read their saved lists, one
\* request at a time.
ShelfCreates == 4

ShelfSaved == 2

ShelfNext ==
    \/ Created < ShelfCreates /\ SerialRegister(ShelfCreates)
    \/ Created < ShelfCreates /\ SerialPostCreate(ShelfCreates)
    \/ Created < ShelfCreates /\ SerialLikeCreate(ShelfCreates)
    \/ Created < ShelfCreates /\ SerialCommentCreate(ShelfCreates)
    \/ \E uid \in UserIds, postId \in PostArgs :
          SerialSavePost(uid, postId, ShelfSaved)
    \/ \E uid \in UserIds, postId \in PostArgs : SerialPostDelete(uid, postId)
    \/ \E uid \in UserIds, userId \in UserArgs :
          SerialAdminUserDelete(uid, userId)
    \/ SavedGet
    \/ Deliver

ShelfSpec == Init /\ [][ShelfNext]_vars

-----------------------------------------------------------------------------
(* Properties.                                                              *)

\* The block this step runs is a block of the suspended request r.
StepOf(r) == CopiesIn(r, inflight') < CopiesIn(r, inflight)

\* The edges between two users, in either direction.
EdgesBetween(a, b) ==
    {f \in friends : \/ (f.userId = a /\ f.friendId = b)
                     \/ (f.userId = b /\ f.friendId = a)}

\* The ids handed out so far that name no user any more.
DeletedUsers == {u \in UserArgs : getUser(u) = NoId}

DeletedPosts == {p \in PostArgs : getPost(p) = NoId}

\* C1: the store never holds two Likes of one (userId, postId) pair, so
\* getLikesByPost(p) never holds two Likes by one user.
C1_OneLikePerPair ==
    \A l1 \in likes : \A l2 \in likes :
        (l1.userId = l2.userId /\ l1.postId = l2.postId) => l1.id = l2.id

\* The post deleteUser(r.arg) listed in userPosts.
ListedPosts(r) == {r.userPosts[k] : k \in 1..Len(r.userPosts)}

\* C2: when deleteUser(U) returns true, U is not found, no post by U is left,
\* no like or comment on a post of U is left, no like or comment by U is left
\* and no edge with U as requester or addressee is left.
C2_DeleteUserCascades ==
    [][\A r \in Suspended :
          (/\ r.kind = "deleteUser" /\ r.pc = "loop"
           /\ r.i > Len(r.userPosts)
           /\ StepOf(r))
          => /\ \A u \in users' : u.id # r.arg
             /\ \A p \in posts' : p.userId # r.arg /\ p.id \notin ListedPosts(r)
             /\ \A l \in likes' :
                   l.userId # r.arg /\ l.postId \notin ListedPosts(r)
             /\ \A c \in comments' :
                   c.userId # r.arg /\ c.postId \notin ListedPosts(r)
             /\ \A f \in friends' : f.userId # r.arg /\ f.friendId # r.arg]_vars

\* C2: deleteUser has returned true for a user who had an edge (nothing else
\* removes an edge) and a post.
C2_Witness ==
    /\ inflight = EmptyBag
    /\ DeletedUsers # {}
    /\ currentFriendId > 1 /\ friends = {}
    /\ currentPostId > 1 /\ posts = {}

\* The post a suspended deletePost(id) is about to delete: the handler's, or
\* the one deleteUser's loop is at.
DeletePostOf(r) == IF r.kind = "deleteUser" THEN r.userPosts[r.i] ELSE r.arg

\* C3: when deletePost(P) returns true, P is not found, P has no likes and no
\* comments, and the likes and comments of every other post are as before.
C3_DeletePostCascades ==
    [][\A r \in Suspended :
          (/\ r.kind \in {"deletePost", "deleteUser"} /\ r.pc = "deletePost"
           /\ r.loc # NoId
           /\ StepOf(r))
          => /\ \A p \in posts' : p.id # DeletePostOf(r)
             /\ \A l \in likes' : l.postId # DeletePostOf(r)
             /\ \A c \in comments' : c.postId # DeletePostOf(r)
             /\ posts' = {p \in posts : p.id # DeletePostOf(r)}
             /\ likes' = {l \in likes : l.postId # DeletePostOf(r)}
             /\ comments' = {c \in comments : c.postId # DeletePostOf(r)}]_vars

\* C3: a post that had a like and a comment was deleted by its author's
\* request (no user was deleted).
C3_Witness ==
    /\ inflight = EmptyBag
    /\ DeletedPosts # {} /\ DeletedUsers = {}
    /\ currentLikeId > 1 /\ likes = {}
    /\ currentCommentId > 1 /\ comments = {}

\* C4: while a deleteUser or a deletePost is suspended at an await, the state
\* the other handlers see never has the user (the post) gone and a post, like,
\* comment or edge that refers to it still there.
C4_CascadeAtomic ==
    \A r \in Suspended :
        /\ (r.kind = "deleteUser" /\ getUser(r.arg) = NoId)
           => /\ \A p \in posts : p.userId # r.arg
              /\ \A l \in likes : l.userId # r.arg
              /\ \A c \in comments : c.userId # r.arg
              /\ \A f \in friends : f.userId # r.arg /\ f.friendId # r.arg
        /\ (r.kind = "deletePost" /\ r.pc = "deletePost"
            /\ getPost(r.arg) = NoId)
           => /\ \A l \in likes : l.postId # r.arg
              /\ \A c \in comments : c.postId # r.arg

\* What C5 asks of one kind of entity, S its Map and c its counter: every id
\* in the Map is below the counter and names one entity; the counter never
\* goes back; an id that enters the Map is the counter's value, and the
\* counter moves past it in the same step.  So each id handed out is above
\* all the ids handed out before it, deleted or not.
IdsBelow(S, c) ==
    /\ \A e \in S : e.id >= 1 /\ e.id < c
    /\ \A e1 \in S : \A e2 \in S : e1.id = e2.id => e1 = e2

IdsFresh(S, S2, c, c2) ==
    /\ c2 >= c
    /\ \A e \in S2 : (\A d \in S : d.id # e.id) => (e.id = c /\ c2 = c + 1)

\* C5: for users, posts, likes, comments, edges and stories, the ids the
\* create operations hand out are strictly increasing and none is handed out
\* twice, also after a delete and when two creates overlap.
C5_IdsIncreasing ==
    /\ [](/\ IdsBelow(users, currentUserId)
          /\ IdsBelow(posts, currentPostId)
          /\ IdsBelow(likes, currentLikeId)
          /\ IdsBelow(comments, currentCommentId)
          /\ IdsBelow(friends, currentFriendId)
          /\ IdsBelow(stories, currentStoryId))
    /\ [][/\ IdsFresh(users, users', currentUserId, currentUserId')
          /\ IdsFresh(posts, posts', currentPostId, currentPostId')
          /\ IdsFresh(likes, likes', currentLikeId, currentLikeId')
          /\ IdsFresh(comments, comments', currentCommentId, currentCommentId')
          /\ IdsFresh(friends, friends', currentFriendId, currentFriendId')
          /\ IdsFresh(stories, stories', currentStoryId, currentStoryId')]_vars

\* C5: a post was created after an older post was deleted.
C5_Witness == \E p \in posts : \E q \in DeletedPosts : q < p.id

\* C6: the status of an edge changes only from pending, to accepted or to
\* rejected.
C6_StatusLeavesPendingOnly ==
    [][\A f \in friends : \A g \in friends' :
          (g.id = f.id /\ g.status # f.status)
          => (f.status = "pending" /\ g.status \in {"accepted", "rejected"})]_vars

\* The request r, resumed after "await storage.getFriendRequest", holds an
\* existing edge.
FoundExisting(r) ==
    \E r2 \in BagToSet(inflight') :
        /\ r2 = [r EXCEPT !.pc = "getFriendRequest", !.loc = r2.loc]
        /\ r2.loc # NoId
        /\ CopiesIn(r2, inflight') > CopiesIn(r2, inflight)

C8_OneLiveEdgePerPair ==
    \A f \in friends : \A g \in friends :
        (/\ f.status \in {"pending", "accepted"}
         /\ g.status \in {"pending", "accepted"}
         /\ g \in EdgesBetween(f.userId, f.friendId))
        => f.id = g.id

\* C9: getFriendRequest(a, b) and getFriendRequest(b, a) agree, so a request
\* from B to A whose check runs once the edge from A to B is stored finds that
\* edge and adds none.
C9_GetFriendRequestSymmetric ==
    /\ [](\A a \in UserArgs : \A b \in UserArgs :
             getFriendRequest(a, b) = getFriendRequest(b, a))
    /\ [][\A r \in Suspended :
             /\ (/\ r.kind = "friendRequest" /\ r.pc = "getUser"
                 /\ r.loc # NoId
                 /\ StepOf(r)
                 /\ \E f \in friends : f.userId = r.arg /\ f.friendId = r.uid)
                => FoundExisting(r)
             /\ (/\ r.kind = "friendRequest" /\ r.pc = "getFriendRequest"
                 /\ r.loc # NoId
                 /\ StepOf(r))
                => friends' = friends]_vars

\* C9: a request from B to A is past its check holding the edge from A to B.
C9_Witness ==
    \E r \in Suspended :
        /\ r.kind = "friendRequest" /\ r.pc = "getFriendRequest"
        /\ \E f \in friends :
              f.id = r.loc /\ f.userId = r.arg /\ f.friendId = r.uid

\* The entries of getFriends(a) whose joined user is b.
FriendEntries(a, b) == {e \in getFriends(a) : e.user = b}

\* C10: between requests, the two parties of an accepted edge are in each
\* other's getFriends exactly once, and the parties of a pending or rejected
\* edge are not in each other's getFriends.
C10_GetFriendsBothWays ==
    inflight = EmptyBag =>
        \A f \in friends :
            IF f.status = "accepted"
            THEN /\ Cardinality(FriendEntries(f.userId, f.friendId)) = 1
                 /\ Cardinality(FriendEntries(f.friendId, f.userId)) = 1
            ELSE /\ FriendEntries(f.userId, f.friendId) = {}
                 /\ FriendEntries(f.friendId, f.userId) = {}

\* C10: an edge was accepted and no request is suspended.
C10_Witness ==
    /\ inflight = EmptyBag
    /\ \E f \in friends :
          /\ f.status = "accepted"
          /\ FriendEntries(f.userId, f.friendId) # {}
          /\ FriendEntries(f.friendId, f.userId) # {}

\* The users, other than u, that have no edge with u in any status.
NoEdgeWith(u) == {v \in users : v.id # u /\ EdgesBetween(u, v.id) = {}}

\* C11: the suggestions for U hold neither U nor a user who has an edge with
\* U, pending, accepted or rejected, in either direction.
C11_SuggestionsExcludeEdges ==
    response.op = "getFriendSuggestions" =>
        \A k \in 1..Len(response.value) :
            /\ response.value[k] # response.arg
            /\ EdgesBetween(response.arg, response.value[k]) = {}

\* C12: the suggestions for U are the first five, or all if fewer, of the
\* users that are not excluded (U, and the users with an edge with U), in the
\* order of their ids.
C12_SuggestionsFirstFive ==
    response.op = "getFriendSuggestions" =>
        /\ Len(response.value) <= 5
        /\ response.value = Slice(InOrder(NoEdgeWith(response.arg)), 5)

\* An accepted edge joins u and v, in either direction.
AcceptedBetween(u, v) == \E f \in EdgesBetween(u, v) : f.status = "accepted"

\* The elements of a sequence.
Range(s) == {s[k] : k \in 1..Len(s)}

\* The entity of S whose id is i.
ById(S, i) == CHOOSE e \in S : e.id = i

C14_FeedNewestFirstTiesById ==
    response.op = "getPostsForFeed" =>
        \A j \in 1..Len(response.value) : \A k \in 1..Len(response.value) :
            j < k =>
                \/ ById(posts, response.value[j]).createdAt
                      > ById(posts, response.value[k]).createdAt
                \/ /\ ById(posts, response.value[j]).createdAt
                        = ById(posts, response.value[k]).createdAt
                   /\ response.value[j] > response.value[k]

\* C15: the comments of P are exactly the comments whose postId is P, each
\* once, in ascending order of createdAt, and of two comments of one
\* createdAt the one with the lower id comes first.
C15_CommentsOldestFirst ==
    response.op = "getCommentsByPost" =>
        /\ Range(response.value) =
              {c.id : c \in {d \in comments : d.postId = response.arg}}
        /\ \A j \in 1..Len(response.value) : \A k \in 1..Len(response.value) :
              j < k =>
                  \/ ById(comments, response.value[j]).createdAt
                        < ById(comments, response.value[k]).createdAt
                  \/ /\ ById(comments, response.value[j]).createdAt
                          = ById(comments, response.value[k]).createdAt
                     /\ response.value[j] < response.value[k]

\* C15: the comments of a post were answered, an older and a newer one.
C15_Witness ==
    /\ response.op = "getCommentsByPost"
    /\ Len(response.value) = 2
    /\ ById(comments, response.value[1]).createdAt
         < ById(comments, response.value[2]).createdAt

\* The story st has reached the age of 24 hours.
Expired(st) == now - st.createdAt >= TwentyFourHours

IdentityFields == {"id", "username", "password", "createdAt"}

\* C17: updateUser(id, partial) on an existing user gives each profile field
\* that partial holds, null included, the value partial holds for it, leaves
\* the profile fields partial omits, and id, username, password and createdAt,
\* as they were, and leaves every other user as it was.
C17_UpdateUserMerges ==
    [][(response'.op = "updateUser" /\ getUser(response'.arg) # NoId)
       => LET id == response'.arg
              updates == response'.value
          IN  /\ \E u \in users' : u.id = id
              /\ \A f \in ProfileFields :
                    ById(users', id)[f] = IF Has(updates, f)
                                          THEN Val(updates, f)
                                          ELSE ById(users, id)[f]
              /\ \A f \in IdentityFields :
                    ById(users', id)[f] = ById(users, id)[f]
              /\ {u \in users' : u.id # id} = {u \in users : u.id # id}]_vars

\* C17: the cover upload's update was applied to a user: coverImage holds the
\* string, coverColor the null the update gave, and a second user exists.
C17_Witness ==
    \E u \in users : \E v \in users :
        /\ u.coverImage = "b" /\ u.coverColor = Null
        /\ v.id # u.id

\* C18: updateUser(id, partial) with a lastNameChange T in partial leaves the
\* stored user, which getUser returns, with lastNameChange T.
C18_LastNameChangeStored ==
    [][(/\ response'.op = "updateUser"
        /\ getUser(response'.arg) # NoId
        /\ Has(response'.value, "lastNameChange"))
       => ById(users', response'.arg).lastNameChange
            = Val(response'.value, "lastNameChange")]_vars

\* C19: toggleUserBanStatus(id) on an existing user negates isBanned, leaves
\* the other fields of the user, the other users and the other collections as
\* they were, and a second call right after it gives back the users there
\* were before the first.
C19_ToggleBanFlipsOnly ==
    [][response'.op = "toggleUserBanStatus"
       => LET userId == response'.arg
          IN  /\ ById(users', userId).isBanned = ~ById(users, userId).isBanned
              /\ \A f \in DOMAIN ById(users, userId) \ {"isBanned"} :
                    ById(users', userId)[f] = ById(users, userId)[f]
              /\ {u \in users' : u.id # userId}
                    = {u \in users : u.id # userId}
              /\ UNCHANGED <<posts, likes, comments, friends, stories,
                             savedPosts>>
              /\ {IF u.id = userId THEN ToggledUser(u) ELSE u : u \in users'}
                    = users]_vars

\* C19: a user is banned who has edited the profile.
C19_Witness ==
    \E u \in users : u.isBanned /\ u.bio = "b"

\* a comes before b in list.
Before(list, a, b) ==
    \E i \in 1..Len(list) : \E j \in 1..Len(list) :
        i < j /\ list[i] = a /\ list[j] = b

\* The saved list of userId after the step.
SavedAfter(userId) ==
    IF userId \in DOMAIN savedPosts' THEN savedPosts'[userId] ELSE <<>>

\* C20: a user's saved list never holds a post id twice; savePost(u, p)
\* leaves p in u's list, after the ids that were there, and leaves the list
\* as it was when p was in it; unsavePost(u, p) leaves p out of u's list and
\* leaves the list as it was when p was not in it; the ids that remain are
\* in the order they were in.
C20_SavedPostsAreSets ==
    /\ [](\A u \in DOMAIN savedPosts :
             \A i \in 1..Len(savedPosts[u]) : \A j \in 1..Len(savedPosts[u]) :
                 savedPosts[u][i] = savedPosts[u][j] => i = j)
    /\ [][response'.op = "savePost"
          => LET u == response'.arg
                 p == response'.value[1]
                 old == SavedOf(u)
                 new == SavedAfter(u)
             IN  /\ Includes(new, p)
                 /\ Includes(old, p) => new = old
                 /\ Range(new) = Range(old) \cup {p}
                 /\ \A a \in Range(old) : \A b \in Range(old) :
                       Before(new, a, b) <=> Before(old, a, b)
                 /\ ~Includes(old, p)
                       => \A a \in Range(old) : Before(new, a, p)]_vars
    /\ [][response'.op = "unsavePost"
          => LET u == response'.arg
                 p == response'.value[1]
                 old == SavedOf(u)
                 new == SavedAfter(u)
             IN  /\ ~Includes(new, p)
                 /\ ~Includes(old, p) => new = old
                 /\ Range(new) = Range(old) \ {p}
                 /\ \A a \in Range(new) : \A b \in Range(new) :
                       Before(new, a, b) <=> Before(old, a, b)]_vars

\* C20: a post in the middle of three saved ones was unsaved, the two that
\* remain are in the order they were saved in, and unsaving it once more was
\* answered.
C20_Witness ==
    /\ response.op = "unsavePost"
    /\ response.arg \in DOMAIN savedPosts
    /\ savedPosts[response.arg] = <<3, 1>>
    /\ response.value = <<2>>

\* The entities of S' that this step inserted.
Inserted(S, T) == {e \in T : e.id \notin {d.id : d \in S}}

\* C21: a Like or Comment a route inserts names a post and a user that the
\* store holds at that moment, and a FriendEdge a route inserts names two
\* users that the store holds at that moment, whatever deletePost and
\* deleteUser do between the route's existence check and the insertion.
C21_InsertedReferencesExist ==
    [][/\ \A l \in Inserted(likes, likes') :
             l.postId \in PostIds /\ l.userId \in UserIds
       /\ \A c \in Inserted(comments, comments') :
             c.postId \in PostIds /\ c.userId \in UserIds
       /\ \A f \in Inserted(friends, friends') :
             f.userId \in UserIds /\ f.friendId \in UserIds]_vars

\* The request this step answers came from user uid through route op with
\* arg in its path.
Answers(op, arg, uid) ==
    /\ response'.op = op
    /\ response'.arg = arg
    /\ response'.value[1] = uid

\* C22: the content of a post changes only in a PUT /api/posts/:postId of
\* its author; a post goes only in a DELETE /api/posts/:postId of its
\* author, in the administrator's DELETE /api/admin/posts/:postId, or in the
\* administrator's deletion of its author; and an edit or a delete that
\* another user sends leaves the posts, likes and comments as they were.
C22_OnlyAuthorOrAdmin ==
    [][/\ \A p \in posts : \A q \in posts' :
             (q.id = p.id /\ q.content # p.content)
             => Answers("editPost", p.id, p.userId)
       /\ \A p \in posts :
             p.id \notin {q.id : q \in posts'}
             => \/ Answers("deletePost", p.id, p.userId)
                \/ Answers("adminDeletePost", p.id, AdminId)
                \/ Answers("adminDeleteUser", p.userId, AdminId)
       /\ (/\ response'.op \in {"editPost", "deletePost"}
           /\ response'.arg \in PostIds
           /\ response'.value[1] # PostAuthor(response'.arg))
          => UNCHANGED <<posts, likes, comments>>
       /\ (/\ response'.op \in {"adminDeletePost", "adminDeleteUser"}
           /\ response'.value[1] # AdminId)
          => UNCHANGED <<posts, likes, comments>>]_vars

\* C22: user 2 asked to edit the post of user 1 and was refused; the post
\* has its first content and its comment.
C22_Witness ==
    /\ response = Answer("editPost", 1, 2, 403)
    /\ \E p \in posts : p.id = 1 /\ p.userId = 1 /\ p.content = "a"
    /\ \E c \in comments : c.postId = 1

\* C23: through the routes, the status of a FriendEdge changes only in an
\* accept or reject request that the edge's addressee sent.
C23_OnlyAddresseeAnswers ==
    [][\A f \in friends : \A g \in friends' :
          (g.id = f.id /\ g.status # f.status)
          => \/ Answers("acceptFriendRequest", f.id, f.friendId)
             \/ Answers("rejectFriendRequest", f.id, f.friendId)]_vars

\* C24: an edge createFriendRequest has just created is pending, whatever
\* InsertFriend it was given.
C24_CreatedEdgePending ==
    [][\A f \in Inserted(friends, friends') : f.status = "pending"]_vars

\* The store methods that look a user, a post, or an edge up by id.
UserMethods == {"deleteUser", "updateUser", "toggleUserBanStatus"}

PostMethods == {"deletePost", "updatePost"}

EdgeMethods == {"acceptFriendRequest", "rejectFriendRequest"}

\* The call this step made was given an id, or a pair, that names nothing.
CalledOnAbsent ==
    \/ response'.op = "removeLike"
          /\ getLike(response'.arg, response'.value[1]) = NoId
    \/ response'.op \in UserMethods /\ getUser(response'.arg) = NoId
    \/ response'.op \in PostMethods /\ getPost(response'.arg) = NoId
    \/ response'.op \in EdgeMethods
          /\ response'.arg \notin {f.id : f \in friends}

\* C25: removeLike for a pair without a like, and deletePost, deleteUser,
\* updateUser, updatePost, toggleUserBanStatus, acceptFriendRequest and
\* rejectFriendRequest for an id that names nothing, leave every collection
\* and every id counter as it was, and those that return a result return
\* false or undefined.
C25_AbsenceHasNoEffect ==
    [][CalledOnAbsent
       => /\ UNCHANGED <<store, savedPosts, counters>>
          /\ response'.op # "removeLike" => response'.value = <<FALSE>>]_vars

\* C25: deleteUser was called for the id of a user deleted before, while a
\* user and a post are stored.
C25_Witness ==
    /\ response = Returned("deleteUser", 2, FALSE)
    /\ currentUserId > 2
    /\ users # {} /\ posts # {}

\* C26: each post of the feed of U carries the number of the Likes on it,
\* a liked flag that is true exactly when U has a Like on it, and the
\* comments getCommentsByPost returns for it, in that order, all on the
\* store the feed was read from.
C26_FeedCarriesLikesAndComments ==
    response.op = "enhancedPosts"
    => \A k \in 1..Len(response.value) :
          LET e == response.value[k]
          IN  /\ e.likes = Cardinality({l \in likes : l.postId = e.id})
              /\ e.liked <=> \E l \in likes : /\ l.postId = e.id
                                               /\ l.userId = response.arg
              /\ e.comments = getCommentsByPost(e.id)

\* C26: a feed was read in which a post has a like that is not the reader's
\* and a comment.
C26_Witness ==
    /\ response.op = "enhancedPosts"
    /\ \E k \in 1..Len(response.value) :
          /\ response.value[k].likes = 1
          /\ ~response.value[k].liked
          /\ Len(response.value[k].comments) = 1

\* C27: when updateUser or toggleUserBanStatus writes a user, what it
\* writes is its own change applied to the user that is stored then, so the
\* changes other calls made since it read the user are kept.
C27_NoLostUpdate ==
    [][\A r \in Suspended :
          (StepOf(r) /\ r.read # <<>> /\ getUser(r.id) # NoId)
          => ById(users', r.id)
               = IF r.kind = "updateUser"
                 THEN MergeUser(ById(users, r.id), r.updates)
                 ELSE ToggledUser(ById(users, r.id))]_vars

\* C28: once user 1 is created it is stored and not banned, whatever
\* requests to delete and to ban users are sent; and such a request changes
\* nothing when it names user 1 or is sent by another user than user 1.
C28_AdminStays ==
    /\ [](currentUserId > AdminId
          => \E u \in users : u.id = AdminId /\ ~u.isBanned)
    /\ [][(/\ response'.op \in {"adminDeleteUser", "adminToggleBan"}
           /\ \/ response'.arg = AdminId
              \/ response'.value[1] # AdminId)
          => UNCHANGED <<store, savedPosts, counters>>]_vars

\* C28: the administrator asked to ban user 1 and was refused, while
\* another user is banned and a third has been deleted.
C28_Witness ==
    /\ response = Answer("adminToggleBan", 1, 1, 400)
    /\ \E u \in users : u.isBanned
    /\ DeletedUsers # {}

\* C29: when a profile update changes the stored name of a user, the user's
\* lastNameChange was not set or lay CooldownDays whole days or more back,
\* and it is set to the time of the request; and an update that the
\* cooldown refuses changes no field of the user.
C29_NameChangeCooldown ==
    [][/\ \A u \in users : \A v \in users' :
             (v.id = u.id /\ v.name # u.name)
             => /\ \/ u.lastNameChange = NoDate
                   \/ daysSinceLastChange(u) >= CooldownDays
                /\ v.lastNameChange = now
       /\ (response'.op = "putProfile" /\ response'.value[2] = 400)
          => UNCHANGED users]_vars

\* The ids of the posts a getSavedPosts answer lists, in its order.
Listed(value) == [k \in 1..Len(value) |-> value[k].id]

\* C30: getSavedPosts(u) lists the saved ids of u that name a stored post,
\* and no other, in the order they were saved, each with the number of the
\* Likes on the post and with its comments as they are stored; and a step
\* that deletes a post leaves the saved lists as they were.
C30_SavedPostsExist ==
    /\ [](response.op = "getSavedPosts"
          => LET saved == SavedOf(response.arg)
                 listed == Listed(response.value)
             IN  /\ Range(listed) = Range(saved) \cap PostIds
                 /\ \A i \in 1..Len(listed) : \A j \in 1..Len(listed) :
                       listed[i] = listed[j] => i = j
                 /\ \A a \in Range(listed) : \A b \in Range(listed) :
                       Before(listed, a, b) <=> Before(saved, a, b)
                 /\ \A k \in 1..Len(response.value) :
                       LET e == response.value[k]
                       IN  /\ e.likes
                                = Cardinality({l \in likes : l.postId = e.id})
                           /\ e.comments = getCommentsByPost(e.id))
    /\ [][(\E p \in posts : p.id \notin {q.id : q \in posts'})
          => UNCHANGED savedPosts]_vars

\* C30: a user saved posts 1 and 2, post 1 was deleted and is still in the
\* saved list, and the saved posts read after that are post 2 alone.
C30_Witness ==
    /\ response.op = "getSavedPosts"
    /\ SavedOf(response.arg) = <<1, 2>>
    /\ getPost(1) = NoId
    /\ Listed(response.value) = <<2>>

====
